---- MODULE Spec2Model ----
(***************************************************************************)
(* The session-aware request gateway of the expenses front end:            *)
(* frontend/src/api/client.js.  An axios instance (apiClient) whose        *)
(* response interceptor turns a 401 into one POST /auth/refresh, parks     *)
(* the other requests that get 401 meanwhile in failedQueue, and replays   *)
(* or rejects them when the refresh call resolves.                         *)
(*                                                                         *)
(* JavaScript runs one task at a time.  A response of the transport is a   *)
(* task (macrotask); the promise reactions it causes (the .then/.catch of  *)
(* a queued promise, the resumption of an await) are microtasks and all    *)
(* run before the next response is handled.  The model keeps the pending   *)
(* reactions in `microtasks` and in the program positions "catchPending",  *)
(* and handles a response only when there is none.                         *)
(***************************************************************************)
EXTENDS Integers, Sequences, FiniteSets, TLC

\* Number of requests the callers issue through apiClient.
NumReqs == 3

Reqs == 1..NumReqs

\* error.response?.status === 401
Unauthorized == 401

\* Statuses a request to an ordinary endpoint may end with; 0 stands for a
\* network error (error.response is undefined).
Statuses == {0, 200, 401, 422}

\* Statuses POST /auth/refresh may end with.
RefreshStatuses == {0, 200, 401, 500}

RefreshUrl == "/auth/refresh"

\* The endpoints the callers reach through apiClient: usersAPI.getCurrentUser,
\* authAPI.login, authAPI.register, expensesAPI.getExpenses.  None of them
\* includes '/auth/refresh', so that `url = RefreshUrl` is the test of line 34
\* for them.
Endpoints == <<"/users/me", "/auth/login", "/auth/register", "/expenses/">>

\* originalRequest.url of request r: the requests go to the endpoints in turn.
Url(r) == Endpoints[((r - 1) % Len(Endpoints)) + 1]

\* A response or error object: the request it answers (config.url, the
\* caller's request it belongs to, the number of the attempt; the refresh
\* request is only ever sent once per exchange) and its status.
Response(url, r, n, status) == [url |-> url, req |-> r, n |-> n, status |-> status]

\* No error / nothing delivered yet.
Null == [url |-> "", req |-> 0, n |-> 0, status |-> -1]

VARIABLES
    pc,           \* position of each caller's request (see PcStates)
    retry,        \* originalRequest._retry of each request's config
    isRefreshing, \* module variable isRefreshing
    failedQueue,  \* module variable failedQueue: the requests whose {resolve, reject} it holds
    microtasks,   \* promise reactions of released queue entries, in the order they were scheduled
    refreshError, \* the error the pending `await apiClient.post('/auth/refresh')` of a request rejects with
    result,       \* what the caller of each request has received (Null: still pending)
    sends,        \* number of times each request was handed to the transport
    refreshCalls, \* number of POST /auth/refresh the interceptor sent (line 58)
    refreshFails, \* number of these that ended in an error
    relogin,      \* number of assignments window.location.href = '/auth/sign-in' in this document
    lastError,    \* the response the interceptor last received for each request
    behind,       \* for a pending request: the requests whose refresh call was in flight when it was enqueued
    ticket,       \* for a pending request: its place in failedQueue when it was enqueued
    trail         \* the events of each request, in order

\* The state of AuthProvider (contexts/AuthContext.jsx) and of the calls the
\* pages make to the functions of its context value.
VARIABLES
    user,            \* useState(null): the current user, NoUser for null
    loading,         \* useState(true)
    isAuthenticated, \* useState(false)
    fn,              \* the context function each call entered ("none": not called yet)
    at,              \* the request each call awaits, or "returned"
    creds,           \* the arguments (username, password) of each call
    ret,             \* the value each call returned to the page
    network          \* the requests each call sent and the answers it got, in order

\* The page around the gateway.
VARIABLES
    direct,          \* the call the page makes to authAPI.refresh(): where it is and its outcome
    location         \* window.location: the path of the document that is loaded

page == <<direct, location>>

client == <<pc, retry, isRefreshing, failedQueue, microtasks, refreshError, result, sends,
            refreshCalls, refreshFails, relogin, lastError, behind, ticket, trail, page>>

auth == <<user, loading, isAuthenticated, fn, at, creds, ret, network>>

vars == <<client, auth>>

gateway == <<isRefreshing, failedQueue, microtasks>>

history == <<behind, ticket>>

\* "idle": not issued yet; "inflight": at the transport; "awaitRefresh": its
\* handler waits at `await apiClient.post('/auth/refresh')`; "catchPending":
\* that await has been rejected and the catch block is about to run; "queued":
\* its promise is in failedQueue; "resolved"/"rejected": processQueue settled
\* that promise and its reaction is in microtasks; "done": the caller has its
\* response or error.
PcStates == {"idle", "inflight", "queued", "awaitRefresh", "catchPending",
             "resolved", "rejected", "done"}

\* Number of calls the pages make to the functions of the context value.
MaxOps == 2

Ops == 1..MaxOps

Usernames == {"ann", "bob"}

\* The (username, password) pairs the pages pass to login and register.
Credentials == {[username |-> "ann", password |-> "pw1"],
                [username |-> "bob", password |-> "pw2"]}

\* user === null
NoUser == "null"

NoCreds == [username |-> "", password |-> ""]

\* error.response?.data?.detail of a failed request: NoDetail when the error
\* has no response or the response no detail.
NoDetail == ""

Details == {NoDetail, "detail"}

\* The fallback messages of login (line 37), register (line 49) and
\* updateUser (line 73), transliterated.
LoginErrorMessage == "Oshibka vhoda"

RegisterErrorMessage == "Oshibka registracii"

UpdateErrorMessage == "Oshibka obnovleniya profilya"

\* The call has not returned yet.
Pending == [kind |-> "pending", success |-> FALSE, error |-> ""]

\* The call returned without a value (checkAuth, logout).
Undefined == [kind |-> "undefined", success |-> FALSE, error |-> ""]

\* The promise of the call was rejected: an error of the call reached the
\* page.
Rejection == [kind |-> "rejected", success |-> FALSE, error |-> ""]

\* { success: true }
Succeeded == [kind |-> "object", success |-> TRUE, error |-> ""]

\* { success: false, error: error.response?.data?.detail || message }
Failed(detail, message) ==
    [kind |-> "object", success |-> FALSE,
     error |-> IF detail # NoDetail THEN detail ELSE message]

AuthInit ==
    /\ user = NoUser
    /\ loading = TRUE
    /\ isAuthenticated = FALSE
    /\ fn = [o \in Ops |-> "none"]
    /\ at = [o \in Ops |-> "idle"]
    /\ creds = [o \in Ops |-> NoCreds]
    /\ ret = [o \in Ops |-> Pending]
    /\ network = [o \in Ops |-> <<>>]

\* The path of the sign-in page (lines 38 and 67) and of the start page.
SignInPath == "/auth/sign-in"

HomePath == "/"

\* authAPI.refresh() has not been called.
NotCalled == [at |-> "idle", status |-> -1]

Init ==
    /\ AuthInit
    /\ direct = NotCalled
    /\ location = HomePath
    /\ pc = [r \in Reqs |-> "idle"]
    /\ retry = [r \in Reqs |-> FALSE]
    /\ isRefreshing = FALSE
    /\ failedQueue = <<>>
    /\ microtasks = <<>>
    /\ refreshError = [r \in Reqs |-> Null]
    /\ result = [r \in Reqs |-> Null]
    /\ sends = [r \in Reqs |-> 0]
    /\ refreshCalls = 0
    /\ refreshFails = 0
    /\ relogin = 0
    /\ lastError = [r \in Reqs |-> Null]
    /\ behind = [r \in Reqs |-> {}]
    /\ ticket = [r \in Reqs |-> 0]
    /\ trail = [r \in Reqs |-> <<>>]

\* The requests whose handler is suspended at `await apiClient.post('/auth/refresh')`
\* with the refresh call still unanswered: the refresh exchanges in flight.
RefreshInFlight == {r \in Reqs : pc[r] = "awaitRefresh"}

\* No promise reaction is pending: the event loop may take the next response.
Quiescent ==
    /\ microtasks = <<>>
    /\ \A r \in Reqs : pc[r] # "catchPending"

\* Branch without the isRefreshing gate of line 42.
BranchNoGate(status, retried, url, refreshing) ==
    IF status = Unauthorized /\ ~retried
    THEN IF url = RefreshUrl THEN "refreshExpired" ELSE "startRefresh"
    ELSE "passThrough"

\* Branch that takes every error status for an expired session.
BranchAnyError(status, retried, url, refreshing) ==
    IF status # 200 /\ ~retried
    THEN IF url = RefreshUrl THEN "refreshExpired"
         ELSE IF refreshing THEN "enqueue"
         ELSE "startRefresh"
    ELSE "passThrough"

\* Branch without the _retry guard of line 33.
BranchNoRetryGuard(status, retried, url, refreshing) ==
    IF status = Unauthorized
    THEN IF url = RefreshUrl THEN "refreshExpired"
         ELSE IF refreshing THEN "enqueue"
         ELSE "startRefresh"
    ELSE "passThrough"

\* Branch that also exempts POST /auth/login and POST /auth/register from
\* the refresh cycle.
BranchSparesAuthEndpoints(status, retried, url, refreshing) ==
    IF status = Unauthorized /\ ~retried /\ url \notin {"/auth/login", "/auth/register"}
    THEN IF url = RefreshUrl THEN "refreshExpired"
         ELSE IF refreshing THEN "enqueue"
         ELSE "startRefresh"
    ELSE "passThrough"

\* The branch the error handler of the response interceptor takes.
Branch(status, retried, url, refreshing) ==
    IF status = Unauthorized /\ ~retried
    THEN IF url = RefreshUrl THEN "refreshExpired"
         ELSE IF refreshing THEN "enqueue"
         ELSE "startRefresh"
    ELSE "passThrough"

\* processQueue that resolves every entry, whatever the error.
ProcessQueueAlwaysResolve(queue, error) ==
    [i \in 1..Len(queue) |-> [req |-> queue[i], kind |-> "resolve", err |-> error]]

\* processQueue that visits the entries last to first.
ProcessQueueReversed(queue, error) ==
    [i \in 1..Len(queue) |->
        [req |-> queue[Len(queue) + 1 - i],
         kind |-> IF error # Null THEN "reject" ELSE "resolve", err |-> error]]

\* processQueue without the forEach of lines 17-23: the queue is emptied and
\* no entry is settled.
ProcessQueueDropsEntries(queue, error) == <<>>

\* processQueue that rejects each entry with the 401 of its own request
\* instead of the error it was called with.
ProcessQueueOwnError(queue, error) ==
    [i \in 1..Len(queue) |->
        [req |-> queue[i], kind |-> IF error # Null THEN "reject" ELSE "resolve",
         err |-> IF error # Null THEN lastError[queue[i]] ELSE error]]

\* processQueue(error): the reactions it schedules, one per queue entry, in
\* the order forEach visits the entries.
ProcessQueue(queue, error) ==
    [i \in 1..Len(queue) |->
        [req |-> queue[i], kind |-> IF error # Null THEN "reject" ELSE "resolve", err |-> error]]

\* The position of the queued requests after processQueue settled their promises.
Settled(tasks, r, old) ==
    IF \E i \in 1..Len(tasks) : tasks[i].req = r
    THEN IF tasks[CHOOSE i \in 1..Len(tasks) : tasks[i].req = r].kind = "resolve"
         THEN "resolved" ELSE "rejected"
    ELSE old

RECURSIVE SeqToSet(_)
SeqToSet(s) == IF s = <<>> THEN {} ELSE {Head(s)} \cup SeqToSet(Tail(s))

\* A pending request has got its answer: it is pending no more.
Forget(r) ==
    /\ behind' = [behind EXCEPT ![r] = {}]
    /\ ticket' = [ticket EXCEPT ![r] = 0]

\* The events of a step: evs[r] is appended to the trail of request r.
Log(evs) == trail' = [r \in Reqs |-> trail[r] \o evs[r]]

Only(r, evs) == [q \in Reqs |-> IF q = r THEN evs ELSE <<>>]

\* A caller issues a request: apiClient.get/post/put/delete(...).
Issue(r) ==
    /\ pc[r] = "idle"
    /\ pc' = [pc EXCEPT ![r] = "inflight"]
    /\ sends' = [sends EXCEPT ![r] = @ + 1]
    /\ Log(Only(r, <<"send">>))
    /\ UNCHANGED <<retry, gateway, refreshError, result, refreshCalls, refreshFails,
                   relogin, lastError, history>>
    /\ UNCHANGED <<auth, page>>

\* A 2xx response: (response) => response.
Success(r) ==
    /\ pc[r] = "inflight"
    /\ Quiescent
    /\ LET resp == Response(Url(r), r, sends[r], 200) IN
        /\ lastError' = [lastError EXCEPT ![r] = resp]
        /\ result' = [result EXCEPT ![r] = resp]
    /\ pc' = [pc EXCEPT ![r] = "done"]
    /\ Log(Only(r, <<"200">>))
    /\ UNCHANGED <<retry, gateway, refreshError, sends, refreshCalls, refreshFails,
                   relogin, history>>
    /\ UNCHANGED <<auth, page>>

\* PassThrough that hands the failed request to the transport again instead
\* of rejecting (line 72).
PassThroughRetries(r, status) ==
    /\ pc[r] = "inflight"
    /\ Quiescent
    /\ status # 200
    /\ Branch(status, retry[r], Url(r), isRefreshing) = "passThrough"
    /\ lastError' = [lastError EXCEPT ![r] = Response(Url(r), r, sends[r], status)]
    /\ IF sends[r] <= NumReqs
       THEN /\ sends' = [sends EXCEPT ![r] = @ + 1]
            /\ Log(Only(r, <<"error", "send">>))
            /\ UNCHANGED <<pc, result>>
       ELSE /\ pc' = [pc EXCEPT ![r] = "done"]
            /\ result' = [result EXCEPT ![r] = lastError'[r]]
            /\ Log(Only(r, <<"error">>))
            /\ UNCHANGED sends
    /\ UNCHANGED <<retry, gateway, refreshError, refreshCalls, refreshFails,
                   relogin, history>>
    /\ UNCHANGED <<auth, page>>

\* PassThrough that assigns window.location.href before rejecting.
PassThroughRedirects(r, status) ==
    /\ pc[r] = "inflight"
    /\ Quiescent
    /\ status # 200
    /\ Branch(status, retry[r], Url(r), isRefreshing) = "passThrough"
    /\ LET error == Response(Url(r), r, sends[r], status) IN
        /\ lastError' = [lastError EXCEPT ![r] = error]
        /\ result' = [result EXCEPT ![r] = error]
    /\ pc' = [pc EXCEPT ![r] = "done"]
    /\ relogin' = relogin + 1
    /\ Log(Only(r, <<IF status = Unauthorized THEN "401" ELSE "error">>))
    /\ UNCHANGED <<retry, gateway, refreshError, sends, refreshCalls, refreshFails, history>>
    /\ UNCHANGED <<auth, page>>

\* An error that is not an unretried 401: return Promise.reject(error).
PassThrough(r, status) ==
    /\ pc[r] = "inflight"
    /\ Quiescent
    /\ status # 200
    /\ Branch(status, retry[r], Url(r), isRefreshing) = "passThrough"
    /\ LET error == Response(Url(r), r, sends[r], status) IN
        /\ lastError' = [lastError EXCEPT ![r] = error]
        /\ result' = [result EXCEPT ![r] = error]
    /\ pc' = [pc EXCEPT ![r] = "done"]
    /\ Log(Only(r, <<IF status = Unauthorized THEN "401" ELSE "error">>))
    /\ UNCHANGED <<retry, gateway, refreshError, sends, refreshCalls, refreshFails,
                   relogin, history>>
    /\ UNCHANGED <<auth, page>>

\* Enqueue that does not wait for the refresh call: the entry is resolved as
\* soon as it is pushed.
EnqueueNoWait(r, status) ==
    /\ pc[r] = "inflight"
    /\ Quiescent
    /\ status # 200
    /\ Branch(status, retry[r], Url(r), isRefreshing) = "enqueue"
    /\ lastError' = [lastError EXCEPT ![r] = Response(Url(r), r, sends[r], status)]
    /\ microtasks' = Append(microtasks, [req |-> r, kind |-> "resolve", err |-> Null])
    /\ pc' = [pc EXCEPT ![r] = "resolved"]
    /\ behind' = [behind EXCEPT ![r] = RefreshInFlight]
    /\ ticket' = [ticket EXCEPT ![r] = Len(failedQueue) + 1]
    /\ Log(Only(r, <<"401", "enqueue">>))
    /\ UNCHANGED <<retry, isRefreshing, failedQueue, refreshError, result, sends,
                   refreshCalls, refreshFails, relogin>>
    /\ UNCHANGED <<auth, page>>

\* Enqueue that also marks the request (line 54 moved before the queue
\* branch).
EnqueueMarks(r, status) ==
    /\ pc[r] = "inflight"
    /\ Quiescent
    /\ status # 200
    /\ Branch(status, retry[r], Url(r), isRefreshing) = "enqueue"
    /\ lastError' = [lastError EXCEPT ![r] = Response(Url(r), r, sends[r], status)]
    /\ failedQueue' = Append(failedQueue, r)
    /\ retry' = [retry EXCEPT ![r] = TRUE]
    /\ pc' = [pc EXCEPT ![r] = "queued"]
    /\ behind' = [behind EXCEPT ![r] = RefreshInFlight]
    /\ ticket' = [ticket EXCEPT ![r] = Len(failedQueue) + 1]
    /\ Log(Only(r, <<"401", "enqueue">>))
    /\ UNCHANGED <<isRefreshing, microtasks, refreshError, result, sends,
                   refreshCalls, refreshFails, relogin>>
    /\ UNCHANGED <<auth, page>>

\* A 401 while a refresh is under way: failedQueue.push({ resolve, reject }).
Enqueue(r, status) ==
    /\ pc[r] = "inflight"
    /\ Quiescent
    /\ status # 200
    /\ Branch(status, retry[r], Url(r), isRefreshing) = "enqueue"
    /\ lastError' = [lastError EXCEPT ![r] = Response(Url(r), r, sends[r], status)]
    /\ failedQueue' = Append(failedQueue, r)
    /\ pc' = [pc EXCEPT ![r] = "queued"]
    /\ behind' = [behind EXCEPT ![r] = RefreshInFlight]
    /\ ticket' = [ticket EXCEPT ![r] = Len(failedQueue) + 1]
    /\ Log(Only(r, <<"401", "enqueue">>))
    /\ UNCHANGED <<retry, isRefreshing, microtasks, refreshError, result, sends,
                   refreshCalls, refreshFails, relogin>>
    /\ UNCHANGED <<auth, page>>

\* StartRefresh without line 55 (isRefreshing = true).
StartRefreshNoFlag(r, status) ==
    /\ pc[r] = "inflight"
    /\ Quiescent
    /\ status # 200
    /\ Branch(status, retry[r], Url(r), isRefreshing) = "startRefresh"
    /\ lastError' = [lastError EXCEPT ![r] = Response(Url(r), r, sends[r], status)]
    /\ retry' = [retry EXCEPT ![r] = TRUE]
    /\ refreshCalls' = refreshCalls + 1
    /\ pc' = [pc EXCEPT ![r] = "awaitRefresh"]
    /\ Log(Only(r, <<"401", "refresh">>))
    /\ UNCHANGED <<isRefreshing, failedQueue, microtasks, refreshError, result, sends,
                   refreshFails, relogin, history>>
    /\ UNCHANGED <<auth, page>>

\* StartRefresh without line 54 (originalRequest._retry = true).
StartRefreshNoMark(r, status) ==
    /\ pc[r] = "inflight"
    /\ Quiescent
    /\ status # 200
    /\ Branch(status, retry[r], Url(r), isRefreshing) = "startRefresh"
    /\ lastError' = [lastError EXCEPT ![r] = Response(Url(r), r, sends[r], status)]
    /\ isRefreshing' = TRUE
    /\ refreshCalls' = refreshCalls + 1
    /\ pc' = [pc EXCEPT ![r] = "awaitRefresh"]
    /\ Log(Only(r, <<"401", "refresh">>))
    /\ UNCHANGED <<retry, failedQueue, microtasks, refreshError, result, sends, refreshFails,
                   relogin, history>>
    /\ UNCHANGED <<auth, page>>

\* A 401 while no refresh is under way: mark the request, raise the flag and
\* send POST /auth/refresh; the handler suspends at the await.
StartRefresh(r, status) ==
    /\ pc[r] = "inflight"
    /\ Quiescent
    /\ status # 200
    /\ Branch(status, retry[r], Url(r), isRefreshing) = "startRefresh"
    /\ lastError' = [lastError EXCEPT ![r] = Response(Url(r), r, sends[r], status)]
    /\ retry' = [retry EXCEPT ![r] = TRUE]
    /\ isRefreshing' = TRUE
    /\ refreshCalls' = refreshCalls + 1
    /\ pc' = [pc EXCEPT ![r] = "awaitRefresh"]
    /\ Log(Only(r, <<"401", "refresh">>))
    /\ UNCHANGED <<failedQueue, microtasks, refreshError, result, sends, refreshFails,
                   relogin, history>>
    /\ UNCHANGED <<auth, page>>

\* The trail entries of a processQueue run and of the handler t that runs it.
ReleaseLog(tasks, t, evs) ==
    [q \in Reqs |->
        IF q = t THEN evs
        ELSE IF \E i \in 1..Len(tasks) : tasks[i].req = q
        THEN <<tasks[CHOOSE i \in 1..Len(tasks) : tasks[i].req = q].kind>>
        ELSE <<>>]

\* RefreshSucceeded that hands the caller the refresh response instead of
\* re-issuing the triggering request.
RefreshSucceededNoReplay(t) ==
    /\ pc[t] = "awaitRefresh"
    /\ Quiescent
    /\ isRefreshing' = FALSE
    /\ LET tasks == ProcessQueue(failedQueue, Null) IN
        /\ microtasks' = microtasks \o tasks
        /\ pc' = [r \in Reqs |-> IF r = t THEN "done" ELSE Settled(tasks, r, pc[r])]
        /\ Log(ReleaseLog(tasks, t, <<"refresh200", "200">>))
    /\ failedQueue' = <<>>
    /\ result' = [result EXCEPT ![t] = Response(RefreshUrl, t, 1, 200)]
    /\ UNCHANGED <<retry, refreshError, sends, refreshCalls, refreshFails, relogin,
                   lastError, history>>
    /\ UNCHANGED <<auth, page>>

\* RefreshSucceeded without line 59 (isRefreshing = false).
RefreshSucceededKeepsFlag(t) ==
    /\ pc[t] = "awaitRefresh"
    /\ Quiescent
    /\ LET tasks == ProcessQueue(failedQueue, Null) IN
        /\ microtasks' = microtasks \o tasks
        /\ pc' = [r \in Reqs |-> IF r = t THEN "inflight" ELSE Settled(tasks, r, pc[r])]
        /\ Log(ReleaseLog(tasks, t, <<"refresh200", "send">>))
    /\ failedQueue' = <<>>
    /\ sends' = [sends EXCEPT ![t] = @ + 1]
    /\ UNCHANGED <<retry, isRefreshing, refreshError, result, refreshCalls, refreshFails,
                   relogin, lastError, history>>
    /\ UNCHANGED <<auth, page>>

\* POST /auth/refresh answered 2xx: the await resumes; lower the flag,
\* resolve the queue, re-issue the triggering request.
RefreshSucceeded(t) ==
    /\ pc[t] = "awaitRefresh"
    /\ Quiescent
    /\ isRefreshing' = FALSE
    /\ LET tasks == ProcessQueue(failedQueue, Null) IN
        /\ microtasks' = microtasks \o tasks
        /\ pc' = [r \in Reqs |-> IF r = t THEN "inflight" ELSE Settled(tasks, r, pc[r])]
        /\ Log(ReleaseLog(tasks, t, <<"refresh200", "send">>))
    /\ failedQueue' = <<>>
    /\ sends' = [sends EXCEPT ![t] = @ + 1]
    /\ UNCHANGED <<retry, refreshError, result, refreshCalls, refreshFails, relogin,
                   lastError, history>>
    /\ UNCHANGED <<auth, page>>

\* RefreshExpired with a processQueue that lacks line 25 (failedQueue = []):
\* the entries stay in the queue for the processQueue of the catch block.
RefreshExpiredKeepsQueue(t, status) ==
    /\ pc[t] = "awaitRefresh"
    /\ Quiescent
    /\ status # 200
    /\ Branch(status, FALSE, RefreshUrl, isRefreshing) = "refreshExpired"
    /\ isRefreshing' = FALSE
    /\ LET error == Response(RefreshUrl, t, 1, status)
           tasks == ProcessQueue(failedQueue, error) IN
        /\ microtasks' = microtasks \o tasks
        /\ pc' = [r \in Reqs |-> IF r = t THEN "catchPending" ELSE Settled(tasks, r, pc[r])]
        /\ refreshError' = [refreshError EXCEPT ![t] = error]
        /\ Log(ReleaseLog(tasks, t, <<"refreshError">>))
    /\ relogin' = relogin + 1
    /\ refreshFails' = refreshFails + 1
    /\ UNCHANGED <<retry, failedQueue, result, sends, refreshCalls, lastError, history>>
    /\ UNCHANGED <<auth, page>>

\* RefreshExpired without the branch of lines 34-40: the 401 of the refresh
\* call goes to line 72 like any other failure of that call.
RefreshExpiredPassesThrough(t, status) ==
    /\ pc[t] = "awaitRefresh"
    /\ Quiescent
    /\ status # 200
    /\ Branch(status, FALSE, RefreshUrl, isRefreshing) = "refreshExpired"
    /\ refreshError' = [refreshError EXCEPT ![t] = Response(RefreshUrl, t, 1, status)]
    /\ pc' = [pc EXCEPT ![t] = "catchPending"]
    /\ refreshFails' = refreshFails + 1
    /\ Log(Only(t, <<"refreshError">>))
    /\ UNCHANGED <<retry, gateway, result, sends, refreshCalls, relogin, lastError, history>>
    /\ UNCHANGED <<auth, page>>

\* POST /auth/refresh answered 401.  The refresh request passes the same
\* interceptor: lower the flag, reject the queue, redirect, reject; the
\* handler of the triggering request then resumes in its catch block.
RefreshExpired(t, status) ==
    /\ pc[t] = "awaitRefresh"
    /\ Quiescent
    /\ status # 200
    /\ Branch(status, FALSE, RefreshUrl, isRefreshing) = "refreshExpired"
    /\ isRefreshing' = FALSE
    /\ LET error == Response(RefreshUrl, t, 1, status)
           tasks == ProcessQueue(failedQueue, error) IN
        /\ microtasks' = microtasks \o tasks
        /\ pc' = [r \in Reqs |-> IF r = t THEN "catchPending" ELSE Settled(tasks, r, pc[r])]
        /\ refreshError' = [refreshError EXCEPT ![t] = error]
        /\ Log(ReleaseLog(tasks, t, <<"refreshError">>))
    /\ failedQueue' = <<>>
    /\ relogin' = relogin + 1
    /\ refreshFails' = refreshFails + 1
    /\ UNCHANGED <<retry, result, sends, refreshCalls, lastError, history>>
    /\ UNCHANGED <<auth, page>>

\* POST /auth/refresh failed otherwise (another status, or no response): the
\* interceptor passes the error through to the awaiting handler.
RefreshRejected(t, status) ==
    /\ pc[t] = "awaitRefresh"
    /\ Quiescent
    /\ status # 200
    /\ Branch(status, FALSE, RefreshUrl, isRefreshing) = "passThrough"
    /\ refreshError' = [refreshError EXCEPT ![t] = Response(RefreshUrl, t, 1, status)]
    /\ pc' = [pc EXCEPT ![t] = "catchPending"]
    /\ refreshFails' = refreshFails + 1
    /\ Log(Only(t, <<"refreshError">>))
    /\ UNCHANGED <<retry, gateway, result, sends, refreshCalls, relogin, lastError, history>>
    /\ UNCHANGED <<auth, page>>

\* catch (refreshError): lower the flag, reject the queue, redirect, reject.
CatchRefreshError(t) ==
    /\ pc[t] = "catchPending"
    /\ isRefreshing' = FALSE
    /\ LET tasks == ProcessQueue(failedQueue, refreshError[t]) IN
        /\ microtasks' = microtasks \o tasks
        /\ pc' = [r \in Reqs |-> IF r = t THEN "done" ELSE Settled(tasks, r, pc[r])]
        /\ Log(ReleaseLog(tasks, t, <<"fail">>))
    /\ failedQueue' = <<>>
    /\ relogin' = relogin + 1
    /\ result' = [result EXCEPT ![t] = refreshError[t]]
    /\ UNCHANGED <<retry, refreshError, sends, refreshCalls, refreshFails, lastError, history>>
    /\ UNCHANGED <<auth, page>>

\* The reaction of a resolved queue entry: .then(() => apiClient(originalRequest)).
RunResolved ==
    /\ microtasks # <<>>
    /\ Head(microtasks).kind = "resolve"
    /\ LET r == Head(microtasks).req IN
        /\ pc' = [pc EXCEPT ![r] = "inflight"]
        /\ sends' = [sends EXCEPT ![r] = @ + 1]
        /\ Forget(r)
        /\ Log(Only(r, <<"send">>))
    /\ microtasks' = Tail(microtasks)
    /\ UNCHANGED <<retry, isRefreshing, failedQueue, refreshError, result, refreshCalls,
                   refreshFails, relogin, lastError>>
    /\ UNCHANGED <<auth, page>>

\* The reaction of a rejected queue entry: .catch((err) => Promise.reject(err)).
RunRejected ==
    /\ microtasks # <<>>
    /\ Head(microtasks).kind = "reject"
    /\ LET r == Head(microtasks).req IN
        /\ pc' = [pc EXCEPT ![r] = "done"]
        /\ result' = [result EXCEPT ![r] = Head(microtasks).err]
        /\ Forget(r)
        /\ Log(Only(r, <<"fail">>))
    /\ microtasks' = Tail(microtasks)
    /\ UNCHANGED <<retry, isRefreshing, failedQueue, refreshError, sends, refreshCalls,
                   refreshFails, relogin, lastError>>
    /\ UNCHANGED <<auth, page>>

Next ==
    \/ \E r \in Reqs : Issue(r)
    \/ \E r \in Reqs : Success(r)
    \/ \E r \in Reqs, status \in Statuses : PassThrough(r, status)
    \/ \E r \in Reqs, status \in Statuses : Enqueue(r, status)
    \/ \E r \in Reqs, status \in Statuses : StartRefresh(r, status)
    \/ \E t \in Reqs : RefreshSucceeded(t)
    \/ \E t \in Reqs, status \in RefreshStatuses : RefreshExpired(t, status)
    \/ \E t \in Reqs, status \in RefreshStatuses : RefreshRejected(t, status)
    \/ \E t \in Reqs : CatchRefreshError(t)
    \/ RunResolved
    \/ RunRejected

Spec == Init /\ [][Next]_vars

\* The transport answers request r: a response or an error reaches the
\* interceptor.
AnswerRequest(r) ==
    \/ Success(r)
    \/ \E status \in Statuses :
            PassThrough(r, status) \/ Enqueue(r, status) \/ StartRefresh(r, status)

\* The transport answers the refresh call of request t.
AnswerRefresh(t) ==
    \/ RefreshSucceeded(t)
    \/ \E status \in RefreshStatuses : RefreshExpired(t, status) \/ RefreshRejected(t, status)

\* The job queue runs a pending promise reaction.
RunReaction == RunResolved \/ RunRejected \/ \E t \in Reqs : CatchRefreshError(t)

\* Every transport call is answered in the end and every scheduled reaction
\* is run; callers are free to issue their requests or not.
FairSpec ==
    /\ Spec
    /\ \A r \in Reqs : WF_vars(AnswerRequest(r)) /\ WF_vars(AnswerRefresh(r))
    /\ WF_vars(RunReaction)

TypeOK ==
    /\ pc \in [Reqs -> PcStates]
    /\ retry \in [Reqs -> BOOLEAN]
    /\ isRefreshing \in BOOLEAN
    /\ SeqToSet(failedQueue) \subseteq Reqs
    /\ refreshCalls \in Nat /\ refreshFails \in Nat /\ relogin \in Nat

(***************************************************************************)
(* authAPI.refresh(): a POST /auth/refresh the page sends itself.  It      *)
(* passes the same response interceptor as every request of apiClient,     *)
(* but it is not the call of line 58: isRefreshing is not raised for it    *)
(* and no handler awaits it.                                               *)
(***************************************************************************)

\* The page calls authAPI.refresh(): apiClient.post('/auth/refresh').
CallRefresh ==
    /\ direct = NotCalled
    /\ direct' = [at |-> "inflight", status |-> -1]
    /\ UNCHANGED <<pc, retry, gateway, refreshError, result, sends, refreshCalls,
                   refreshFails, relogin, lastError, history, trail, location, auth>>

\* The page's POST /auth/refresh answered 2xx: (response) => response.
DirectRefreshSucceeded ==
    /\ direct.at = "inflight"
    /\ Quiescent
    /\ direct' = [at |-> "returned", status |-> 200]
    /\ UNCHANGED <<pc, retry, gateway, refreshError, result, sends, refreshCalls,
                   refreshFails, relogin, lastError, history, trail, location, auth>>

\* The page's POST /auth/refresh answered 401: the branch of lines 34-40
\* lowers the flag, rejects the queue and redirects, whether or not the
\* interceptor has a refresh call of its own in flight.
DirectRefreshExpired(status) ==
    /\ direct.at = "inflight"
    /\ Quiescent
    /\ status # 200
    /\ Branch(status, FALSE, RefreshUrl, isRefreshing) = "refreshExpired"
    /\ isRefreshing' = FALSE
    /\ LET error == Response(RefreshUrl, 0, 1, status)
           tasks == ProcessQueue(failedQueue, error) IN
        /\ microtasks' = microtasks \o tasks
        /\ pc' = [r \in Reqs |-> Settled(tasks, r, pc[r])]
        /\ Log(ReleaseLog(tasks, 0, <<>>))
    /\ failedQueue' = <<>>
    /\ relogin' = relogin + 1
    /\ direct' = [at |-> "returned", status |-> status]
    /\ UNCHANGED <<retry, refreshError, result, sends, refreshCalls, refreshFails,
                   lastError, history, location, auth>>

\* The page's POST /auth/refresh failed otherwise: return Promise.reject(error).
DirectRefreshRejected(status) ==
    /\ direct.at = "inflight"
    /\ Quiescent
    /\ status # 200
    /\ Branch(status, FALSE, RefreshUrl, isRefreshing) = "passThrough"
    /\ direct' = [at |-> "returned", status |-> status]
    /\ UNCHANGED <<pc, retry, gateway, refreshError, result, sends, refreshCalls,
                   refreshFails, relogin, lastError, history, trail, location, auth>>

DirectNext ==
    \/ Next
    \/ CallRefresh
    \/ DirectRefreshSucceeded
    \/ \E status \in RefreshStatuses : DirectRefreshExpired(status)
    \/ \E status \in RefreshStatuses : DirectRefreshRejected(status)

\* The gateway with a page that may call authAPI.refresh() once, at any time.
DirectSpec == Init /\ [][DirectNext]_vars

(***************************************************************************)
(* A visitor without a session.  The assignment to window.location.href    *)
(* (lines 38 and 67) loads the document of /auth/sign-in: the module        *)
(* state of client.js starts afresh, App renders AuthProvider around the   *)
(* route and its mount effect calls checkAuth (GET /users/me).             *)
(***************************************************************************)

\* The request of the mount effect: usersAPI.getCurrentUser().
MountReq == CHOOSE r \in Reqs : Url(r) = "/users/me" /\ \A q \in Reqs : Url(q) = "/users/me" => r <= q

\* What the server answers a visitor without a session: 401 to GET
\* /users/me; an error to every other request.
VisitorStatuses(r) == IF Url(r) = "/users/me" THEN {Unauthorized} ELSE Statuses \ {200}

\* The navigation that an assignment to window.location.href started takes
\* place: the document is unloaded with whatever was pending and the sign-in
\* page is loaded.
Reload ==
    /\ relogin > 0
    /\ Quiescent
    /\ location' = SignInPath
    /\ pc' = [r \in Reqs |-> "idle"]
    /\ retry' = [r \in Reqs |-> FALSE]
    /\ isRefreshing' = FALSE
    /\ failedQueue' = <<>>
    /\ microtasks' = <<>>
    /\ refreshError' = [r \in Reqs |-> Null]
    /\ result' = [r \in Reqs |-> Null]
    /\ sends' = [r \in Reqs |-> 0]
    /\ refreshCalls' = 0
    /\ refreshFails' = 0
    /\ relogin' = 0
    /\ lastError' = [r \in Reqs |-> Null]
    /\ behind' = [r \in Reqs |-> {}]
    /\ ticket' = [r \in Reqs |-> 0]
    /\ trail' = [r \in Reqs |-> <<>>]
    /\ UNCHANGED <<direct, auth>>

\* The server answers request r of the visitor.
VisitorAnswer(r) ==
    \E status \in VisitorStatuses(r) :
        PassThrough(r, status) \/ Enqueue(r, status) \/ StartRefresh(r, status)

VisitorNext ==
    \/ \E r \in Reqs : Issue(r)
    \/ \E r \in Reqs : \E status \in VisitorStatuses(r) : PassThrough(r, status)
    \/ \E r \in Reqs : \E status \in VisitorStatuses(r) : Enqueue(r, status)
    \/ \E r \in Reqs : \E status \in VisitorStatuses(r) : StartRefresh(r, status)
    \/ \E t \in Reqs : RefreshExpired(t, Unauthorized)
    \/ \E t \in Reqs : CatchRefreshError(t)
    \/ RunRejected
    \/ Reload

\* The mount effect runs in every document, every request is answered,
\* every reaction runs and every navigation takes place; the other requests
\* are issued or not.
VisitorSpec ==
    /\ Init
    /\ [][VisitorNext]_vars
    /\ WF_vars(Issue(MountReq))
    /\ \A r \in Reqs : WF_vars(VisitorAnswer(r)) /\ WF_vars(RefreshExpired(r, Unauthorized))
    /\ WF_vars(RunRejected \/ \E t \in Reqs : CatchRefreshError(t))
    /\ WF_vars(Reload)

(***************************************************************************)
(* AuthProvider: contexts/AuthContext.jsx.  Each request of authAPI and    *)
(* usersAPI is awaited: it resolves with the data of the response or       *)
(* rejects with the error the gateway delivers.                            *)
(***************************************************************************)

\* A request on the network, as call o sent it.
Request(o, url, c) ==
    [op |-> o, dir |-> "request", url |-> url,
     username |-> c.username, password |-> c.password, detail |-> NoDetail]

\* The answer the awaiting call o gets: response.data (the user for
\* /users/me) or an error with its detail.
Answer(o, url, dir, who, detail) ==
    [op |-> o, dir |-> dir, url |-> url,
     username |-> who, password |-> "", detail |-> detail]

\* A page (or the mount effect, line 13) calls a function of the context
\* value; the function runs up to its first await.
Enter(o, f, c, url) ==
    /\ fn[o] = "none"
    /\ fn' = [fn EXCEPT ![o] = f]
    /\ creds' = [creds EXCEPT ![o] = c]
    /\ network' = [network EXCEPT ![o] = Append(@, Request(o, url, c))]
    /\ UNCHANGED <<user, loading, isAuthenticated, ret, client>>

\* The call returns value v to the page.
Return(o, v) ==
    /\ at' = [at EXCEPT ![o] = "returned"]
    /\ ret' = [ret EXCEPT ![o] = v]

\* checkAuth(): await usersAPI.getCurrentUser().
CallCheckAuth(o) ==
    /\ Enter(o, "checkAuth", NoCreds, "/users/me")
    /\ at' = [at EXCEPT ![o] = "me"]

\* login(username, password): await authAPI.login(username, password).
CallLogin(o, username, password) ==
    /\ Enter(o, "login", [username |-> username, password |-> password], "/auth/login")
    /\ at' = [at EXCEPT ![o] = "login"]

\* register(username, password): await authAPI.register(username, password).
CallRegister(o, username, password) ==
    /\ Enter(o, "register", [username |-> username, password |-> password], "/auth/register")
    /\ at' = [at EXCEPT ![o] = "register"]

\* logout(): await authAPI.logout().
CallLogout(o) ==
    /\ Enter(o, "logout", NoCreds, "/auth/logout")
    /\ at' = [at EXCEPT ![o] = "logout"]

\* updateUser(data): await usersAPI.updateCurrentUser(data).
CallUpdateUser(o, data) ==
    /\ Enter(o, "updateUser", [username |-> data, password |-> ""], "/users/me")
    /\ at' = [at EXCEPT ![o] = "update"]

\* RegisterResolved without line 45: register returns { success: true }
\* and calls no login.
RegisterResolvedNoLogin(o) ==
    /\ at[o] = "register"
    /\ network' = [network EXCEPT ![o] = Append(@, Answer(o, "/auth/register", "ok", "", NoDetail))]
    /\ Return(o, Succeeded)
    /\ UNCHANGED <<user, loading, isAuthenticated, fn, creds, client>>

\* POST /auth/register succeeded: return await login(username, password).
RegisterResolved(o) ==
    /\ at[o] = "register"
    /\ network' = [network EXCEPT ![o] = @ \o <<Answer(o, "/auth/register", "ok", "", NoDetail),
                                                 Request(o, "/auth/login", creds[o])>>]
    /\ at' = [at EXCEPT ![o] = "login"]
    /\ UNCHANGED <<user, loading, isAuthenticated, fn, creds, ret, client>>

\* POST /auth/register failed: the catch block of register (lines 46-51).
RegisterRejected(o, detail) ==
    /\ at[o] = "register"
    /\ network' = [network EXCEPT ![o] = Append(@, Answer(o, "/auth/register", "error", "", detail))]
    /\ Return(o, Failed(detail, RegisterErrorMessage))
    /\ UNCHANGED <<user, loading, isAuthenticated, fn, creds, client>>

\* POST /auth/login succeeded: await checkAuth().
LoginResolved(o) ==
    /\ at[o] = "login"
    /\ network' = [network EXCEPT ![o] = @ \o <<Answer(o, "/auth/login", "ok", "", NoDetail),
                                                 Request(o, "/users/me", NoCreds)>>]
    /\ at' = [at EXCEPT ![o] = "me"]
    /\ UNCHANGED <<user, loading, isAuthenticated, fn, creds, ret, client>>

\* POST /auth/login failed: the catch block of login (lines 34-39); a
\* register that called this login returns the same value (line 45).
LoginRejected(o, detail) ==
    /\ at[o] = "login"
    /\ network' = [network EXCEPT ![o] = Append(@, Answer(o, "/auth/login", "error", "", detail))]
    /\ Return(o, Failed(detail, LoginErrorMessage))
    /\ UNCHANGED <<user, loading, isAuthenticated, fn, creds, client>>

\* What the call returns once its checkAuth has finished: checkAuth itself
\* nothing, login { success: true } (line 33), register the value of login.
AfterCheckAuth(f) == IF f = "checkAuth" THEN Undefined ELSE Succeeded

\* GET /users/me succeeded: lines 18-20, then finally.
CurrentUserResolved(o, userData) ==
    /\ at[o] = "me"
    /\ network' = [network EXCEPT ![o] = Append(@, Answer(o, "/users/me", "ok", userData, NoDetail))]
    /\ user' = userData
    /\ isAuthenticated' = TRUE
    /\ loading' = FALSE
    /\ Return(o, AfterCheckAuth(fn[o]))
    /\ UNCHANGED <<fn, creds, client>>

\* CurrentUserRejected without the catch block of checkAuth: the state setters
\* of lines 22-23 do not run, finally does, and the error reaches the caller
\* of checkAuth (the catch block of login, or the page).
CurrentUserRejectedThrows(o, detail) ==
    /\ at[o] = "me"
    /\ network' = [network EXCEPT ![o] = Append(@, Answer(o, "/users/me", "error", "", detail))]
    /\ loading' = FALSE
    /\ Return(o, IF fn[o] = "checkAuth" THEN Rejection ELSE Failed(detail, LoginErrorMessage))
    /\ UNCHANGED <<user, isAuthenticated, fn, creds, client>>

\* GET /users/me failed: the catch block of checkAuth (lines 21-23), then
\* finally.
CurrentUserRejected(o, detail) ==
    /\ at[o] = "me"
    /\ network' = [network EXCEPT ![o] = Append(@, Answer(o, "/users/me", "error", "", detail))]
    /\ user' = NoUser
    /\ isAuthenticated' = FALSE
    /\ loading' = FALSE
    /\ Return(o, AfterCheckAuth(fn[o]))
    /\ UNCHANGED <<fn, creds, client>>

\* LogoutSettled without the catch block of logout: finally clears the user
\* and an error of POST /auth/logout rejects the call.
LogoutSettledNoCatch(o, dir) ==
    /\ at[o] = "logout"
    /\ network' = [network EXCEPT ![o] = Append(@, Answer(o, "/auth/logout", dir, "", NoDetail))]
    /\ user' = NoUser
    /\ isAuthenticated' = FALSE
    /\ Return(o, IF dir = "error" THEN Rejection ELSE Undefined)
    /\ UNCHANGED <<loading, fn, creds, client>>

\* POST /auth/logout answered, with a response or an error: catch logs the
\* error, finally clears the user (lines 56-62).
LogoutSettled(o, dir) ==
    /\ at[o] = "logout"
    /\ network' = [network EXCEPT ![o] = Append(@, Answer(o, "/auth/logout", dir, "", NoDetail))]
    /\ user' = NoUser
    /\ isAuthenticated' = FALSE
    /\ Return(o, Undefined)
    /\ UNCHANGED <<loading, fn, creds, client>>

\* PUT /users/me succeeded: setUser(updatedUser).
UpdateResolved(o) ==
    /\ at[o] = "update"
    /\ network' = [network EXCEPT ![o] = Append(@, Answer(o, "/users/me", "ok", creds[o].username, NoDetail))]
    /\ user' = creds[o].username
    /\ Return(o, Succeeded)
    /\ UNCHANGED <<loading, isAuthenticated, fn, creds, client>>

\* PUT /users/me failed: the catch block of updateUser.
UpdateRejected(o, detail) ==
    /\ at[o] = "update"
    /\ network' = [network EXCEPT ![o] = Append(@, Answer(o, "/users/me", "error", "", detail))]
    /\ Return(o, Failed(detail, UpdateErrorMessage))
    /\ UNCHANGED <<user, loading, isAuthenticated, fn, creds, client>>

AuthNext ==
    \/ \E o \in Ops : CallCheckAuth(o)
    \/ \E o \in Ops, c \in Credentials : CallLogin(o, c.username, c.password)
    \/ \E o \in Ops, c \in Credentials : CallRegister(o, c.username, c.password)
    \/ \E o \in Ops : CallLogout(o)
    \/ \E o \in Ops, data \in Usernames : CallUpdateUser(o, data)
    \/ \E o \in Ops : RegisterResolved(o)
    \/ \E o \in Ops, detail \in Details : RegisterRejected(o, detail)
    \/ \E o \in Ops : LoginResolved(o)
    \/ \E o \in Ops, detail \in Details : LoginRejected(o, detail)
    \/ \E o \in Ops, userData \in Usernames : CurrentUserResolved(o, userData)
    \/ \E o \in Ops, detail \in Details : CurrentUserRejected(o, detail)
    \/ \E o \in Ops, dir \in {"ok", "error"} : LogoutSettled(o, dir)
    \/ \E o \in Ops : UpdateResolved(o)
    \/ \E o \in Ops, detail \in Details : UpdateRejected(o, detail)

AuthSpec == Init /\ [][AuthNext]_vars

AuthTypeOK ==
    /\ user \in Usernames \cup {NoUser}
    /\ loading \in BOOLEAN
    /\ isAuthenticated \in BOOLEAN
    /\ fn \in [Ops -> {"none", "checkAuth", "login", "register", "logout", "updateUser"}]
    /\ at \in [Ops -> {"idle", "register", "login", "me", "logout", "update", "returned"}]
    /\ \A o \in Ops : ret[o].kind \in {"pending", "undefined", "object", "rejected"}

(***************************************************************************)
(* Properties                                                              *)
(***************************************************************************)

\* The response of request r is handled in this step.
Handled(r) == pc[r] = "inflight" /\ pc'[r] # "inflight"

\* The response handled in this step for request r is a 401.
Handled401(r) == Handled(r) /\ lastError'[r] = Response(Url(r), r, sends[r], Unauthorized)

\* C1: at most one refresh exchange is in flight in every reachable state,
\* and an unmarked request whose 401 is handled while isRefreshing is true is
\* appended to failedQueue and starts no refresh.
C1_SingleRefreshInFlight ==
    /\ [](Cardinality(RefreshInFlight) <= 1)
    /\ [][\A r \in Reqs :
            (Handled401(r) /\ ~retry[r] /\ isRefreshing) =>
                /\ pc'[r] = "queued"
                /\ failedQueue' = Append(failedQueue, r)
                /\ refreshCalls' = refreshCalls
                /\ RefreshInFlight' = RefreshInFlight]_vars

\* A refresh is in flight and two requests wait in failedQueue.
C1_Witness ==
    /\ Cardinality(RefreshInFlight) = 1
    /\ Len(failedQueue) >= 2

\* Every request was sent once and its 401 was handled, and no refresh call
\* has been answered yet.
AllExpiredBeforeRefreshResolves ==
    /\ \A r \in Reqs : sends[r] = 1 /\ lastError[r] = Response(Url(r), r, 1, Unauthorized)
    /\ refreshFails = 0

\* C2 (P1): when all N requests got 401 before the refresh call resolved,
\* exactly one POST /auth/refresh was sent: one request (the one whose 401 was
\* handled first) awaits it and the other N-1 are in failedQueue behind it.
C2_ExactlyOneRefresh ==
    AllExpiredBeforeRefreshResolves =>
        /\ refreshCalls = 1
        /\ \E t \in Reqs :
            /\ RefreshInFlight = {t}
            /\ Len(failedQueue) = NumReqs - 1
            /\ SeqToSet(failedQueue) = Reqs \ {t}
            /\ \A r \in Reqs \ {t} : pc[r] = "queued" /\ behind[r] = {t}

C2_Witness ==
    /\ AllExpiredBeforeRefreshResolves
    /\ refreshCalls = 1
    /\ Len(failedQueue) = NumReqs - 1

\* Request r is handed to the transport again in this step.
Reissued(r) == sends[r] >= 1 /\ sends'[r] = sends[r] + 1

\* The responses request r may get on its current attempt.
Outcomes(r) == {Response(Url(r), r, sends[r], s) : s \in Statuses}

\* C3 (P2): when the refresh call succeeds, the triggering request and every
\* request in failedQueue are re-issued (before another response is handled),
\* each re-issue happens after the refresh completed, and the outcome of each
\* re-issued request is delivered to the caller of that request.
C3_ReplayOnSuccess ==
    /\ [](Quiescent => \A r \in Reqs : pc[r] # "resolved")
    /\ [][\A t \in Reqs :
            (pc[t] = "awaitRefresh" /\ pc'[t] = "inflight") =>
                /\ Reissued(t)
                /\ \A r \in SeqToSet(failedQueue) : pc'[r] = "resolved"]_vars
    /\ [][\A r \in Reqs :
            Reissued(r) => ~isRefreshing' /\ behind[r] \cap RefreshInFlight' = {}]_vars
    /\ [][\A r \in Reqs :
            (Handled(r) /\ sends[r] >= 2) =>
                /\ pc'[r] = "done"
                /\ result'[r] \in Outcomes(r)
                /\ result'[r] = lastError'[r]]_vars

\* The refresh call of request t fails in this step (its error reaches the
\* awaiting handler).
RefreshFailsNow(t) == pc[t] = "awaitRefresh" /\ pc'[t] = "catchPending"

\* A failure of a refresh call, as a caller receives it.
IsRefreshFailure(e) ==
    /\ e.url = RefreshUrl
    /\ e.status \in RefreshStatuses \ {200}

\* C4 (P3): when the refresh call fails (401, another status, no response),
\* the caller of the triggering request and the caller of every request in
\* failedQueue receive a failure, before another response is handled, and
\* none of these requests is re-issued.
C4_FailAllOnRefreshFailure ==
    /\ [](Quiescent => \A r \in Reqs : pc[r] \notin {"rejected", "catchPending"})
    /\ [](\A r \in Reqs : pc[r] = "rejected" =>
            \E i \in 1..Len(microtasks) :
                microtasks[i].req = r /\ microtasks[i].kind = "reject")
    /\ [][\A t \in Reqs :
            /\ RefreshFailsNow(t) =>
                /\ IsRefreshFailure(refreshError'[t])
                /\ sends'[t] = sends[t]
            /\ (pc[t] = "catchPending" /\ pc'[t] # "catchPending") =>
                /\ pc'[t] = "done"
                /\ result'[t] = refreshError[t]
                /\ IsRefreshFailure(result'[t])
                /\ sends' = sends
                /\ failedQueue' = <<>>
                /\ \A r \in SeqToSet(failedQueue) : pc'[r] = "rejected"
            /\ pc[t] = "rejected" =>
                /\ pc'[t] \in {"rejected", "done"}
                /\ sends'[t] = sends[t]
                /\ pc'[t] = "done" => IsRefreshFailure(result'[t])]_vars

\* The refresh call failed with two requests in failedQueue, and all three
\* callers have received the failure, each request sent once.
C4_Witness ==
    \E t \in Reqs :
        /\ pc[t] = "done" /\ result[t] = refreshError[t] /\ IsRefreshFailure(result[t])
        /\ \E r, q \in Reqs \ {t} :
            /\ r # q
            /\ trail[r] = <<"send", "401", "enqueue", "reject", "fail">>
            /\ trail[q] = <<"send", "401", "enqueue", "reject", "fail">>
            /\ result[r] = refreshError[t] /\ result[q] = refreshError[t]
            /\ sends[t] = 1 /\ sends[r] = 1 /\ sends[q] = 1

\* C5: each failed refresh call emits the re-login signal exactly once: never
\* more signals than failed refresh calls, and as many once the reactions of
\* the failure have run.
C5_OneReloginPerFailedRefresh ==
    /\ relogin <= refreshFails
    /\ Quiescent => relogin = refreshFails

\* C6 (P4): a re-issued request (the triggering one or one released from
\* failedQueue) that receives 401 again is rejected to its caller with that
\* 401 and starts no refresh.
C6_NoDoubleRetry ==
    [][\A r \in Reqs :
        (Handled401(r) /\ sends[r] >= 2) =>
            /\ pc'[r] = "done"
            /\ result'[r] = Response(Url(r), r, sends[r], Unauthorized)
            /\ refreshCalls' = refreshCalls
            /\ failedQueue' = failedQueue]_vars

\* C7 (P5): a request that fails with a non-401 error (another status, or no
\* response) is rejected to its caller with that same error; no refresh call
\* is sent, no re-login signal is emitted, and isRefreshing, failedQueue and
\* the request's _retry marker are unchanged.
C7_PassThrough ==
    [][\A r \in Reqs : \A status \in Statuses \ {200, Unauthorized} :
        (Handled(r) /\ lastError'[r] = Response(Url(r), r, sends[r], status)) =>
            /\ pc'[r] = "done"
            /\ result'[r] = Response(Url(r), r, sends[r], status)
            /\ refreshCalls' = refreshCalls
            /\ RefreshInFlight' = RefreshInFlight
            /\ relogin' = relogin
            /\ isRefreshing' = isRefreshing
            /\ failedQueue' = failedQueue
            /\ retry' = retry]_vars

\* While a refresh is in flight, one unmarked request was rejected with its
\* 422 and another with its network error.
C7_Witness ==
    /\ isRefreshing /\ RefreshInFlight # {}
    /\ \E r, q \in Reqs :
        /\ ~retry[r] /\ result[r] = Response(Url(r), r, 1, 422)
        /\ ~retry[q] /\ result[q] = Response(Url(q), q, 1, 0)

\* C8 (Scenario A): for a request whose first 401 is handled while the
\* gateway is idle, the events come in the order: request sent, 401, POST
\* /auth/refresh sent, refresh 200, the request re-issued, its 200 delivered
\* to the caller; the caller never observes the 401.
C8_TransparentRecovery ==
    /\ refreshCalls = Cardinality({r \in Reqs : retry[r]})
    /\ \A r \in Reqs :
        LET t == trail[r] IN
        (Len(t) >= 3 /\ t[3] = "refresh") =>
            /\ t[1] = "send" /\ t[2] = "401"
            /\ refreshCalls >= 1
            /\ result[r] # Response(Url(r), r, 1, Unauthorized)
            /\ Len(t) = 3 => (pc[r] = "awaitRefresh" /\ result[r] = Null /\ sends[r] = 1)
            /\ (Len(t) >= 4 /\ t[4] = "refresh200") =>
                /\ Len(t) >= 5 /\ t[5] = "send"
                /\ Len(t) = 5 => (pc[r] = "inflight" /\ result[r] = Null /\ sends[r] = 2)
                /\ (Len(t) >= 6 /\ t[6] = "200") =>
                    /\ Len(t) = 6
                    /\ pc[r] = "done"
                    /\ result[r] = Response(Url(r), r, 2, 200)

\* Scenario A has run to its end for a request.
C8_Witness ==
    \E r \in Reqs :
        /\ trail[r] = <<"send", "401", "refresh", "refresh200", "send", "200">>
        /\ result[r] = Response(Url(r), r, 2, 200)
        /\ refreshCalls = 1

\* C9: a request in failedQueue is not re-issued while the refresh call it
\* waits for is unresolved: it leaves the queue only when that call has been
\* answered, and it is re-issued with isRefreshing back to false.
C9_ReplayAfterRefreshResolved ==
    /\ [](\A r \in Reqs : pc[r] = "queued" =>
            /\ behind[r] # {}
            /\ behind[r] \subseteq {t \in Reqs : pc[t] \in {"awaitRefresh", "catchPending"}})
    /\ [][\A r \in Reqs :
            /\ pc[r] = "queued" => sends'[r] = sends[r]
            /\ (pc[r] = "queued" /\ pc'[r] # "queued") => behind[r] \cap RefreshInFlight' = {}
            /\ (pc[r] = "resolved" /\ Reissued(r)) =>
                /\ behind[r] # {}
                /\ behind[r] \cap RefreshInFlight = {}
                /\ ~isRefreshing]_vars

\* A request that waited in failedQueue has been re-issued.
C9_Witness ==
    \E r \in Reqs :
        /\ trail[r] = <<"send", "401", "enqueue", "resolve", "send">>
        /\ pc[r] = "inflight"
        /\ sends[r] = 2
        /\ ~isRefreshing

\* The requests that processQueue has released and whose reaction has not run.
Released == {r \in Reqs : pc[r] \in {"resolved", "rejected"}}

\* C10: when the refresh call resolves, the pending requests are released in
\* the order in which they were enqueued (the reaction of an earlier entry is
\* scheduled before that of a later one, all in the step that empties the
\* queue), and after a success they are re-issued in that order.
C10_ReleaseInEnqueueOrder ==
    /\ [](\A i, j \in 1..Len(microtasks) :
            i < j => ticket[microtasks[i].req] < ticket[microtasks[j].req])
    /\ [](\A i \in 1..Len(failedQueue) : ticket[failedQueue[i]] = i)
    /\ [][\A r \in Reqs :
            /\ (pc[r] = "queued" /\ pc'[r] # "queued") =>
                /\ failedQueue' = <<>>
                /\ Released' = SeqToSet(failedQueue)
                /\ Len(microtasks') = Len(failedQueue)
            /\ (pc[r] = "resolved" /\ Reissued(r)) =>
                \A q \in Released : ticket[r] <= ticket[q]]_vars

\* Two requests were released together and the one enqueued first has been
\* re-issued, the other not yet.
C10_Witness ==
    \E r, q \in Reqs :
        /\ trail[r] = <<"send", "401", "enqueue", "resolve", "send">>
        /\ trail[q] = <<"send", "401", "enqueue", "resolve">>
        /\ ticket[q] = 2

\* The requests whose refresh exchange is unresolved: the call is unanswered,
\* or its error has not reached the catch block yet.
Refreshing == {t \in Reqs : pc[t] \in {"awaitRefresh", "catchPending"}}

\* C11: isRefreshing becomes true only in a step that starts a refresh call
\* and false only in a step that resolves one, and that step releases every
\* pending request; isRefreshing = false implies that failedQueue is empty;
\* after a refresh cycle the gateway is idle again, so that the next 401 on
\* an unmarked request starts a new refresh call.
C11_RefreshStateLifecycle ==
    /\ [](~isRefreshing => failedQueue = <<>> /\ RefreshInFlight = {})
    /\ [](isRefreshing => Refreshing # {})
    /\ []((Quiescent /\ RefreshInFlight = {}) => ~isRefreshing)
    /\ [][/\ (~isRefreshing /\ isRefreshing') =>
                /\ refreshCalls' = refreshCalls + 1
                /\ \E t \in Reqs : pc[t] = "inflight" /\ RefreshInFlight' = {t}
          /\ (isRefreshing /\ ~isRefreshing') =>
                /\ \E t \in Refreshing : pc'[t] # pc[t]
                /\ RefreshInFlight' = {}
                /\ failedQueue' = <<>>
                /\ \A r \in SeqToSet(failedQueue) : pc'[r] \in {"resolved", "rejected"}
          /\ \A r \in Reqs :
                (Handled401(r) /\ ~retry[r] /\ ~isRefreshing) =>
                    /\ isRefreshing'
                    /\ refreshCalls' = refreshCalls + 1
                    /\ RefreshInFlight' = {r}]_vars

\* A second refresh call is in flight after a first one has failed and a
\* request was rejected from the queue.
C11_Witness ==
    /\ isRefreshing
    /\ refreshCalls = 2
    /\ refreshFails = 1
    /\ RefreshInFlight # {}
    /\ \E r \in Reqs : trail[r] = <<"send", "401", "enqueue", "reject", "fail">>

\* C12: in IDLE and in REFRESHING, a 401 on a request marked _retry is
\* rejected to its caller: the request is not enqueued, no refresh call is
\* sent, no re-login signal is emitted, isRefreshing and failedQueue are
\* unchanged.
C12_MarkedRequestRejected ==
    [][\A r \in Reqs :
        (Handled401(r) /\ retry[r]) =>
            /\ pc'[r] = "done"
            /\ result'[r] = Response(Url(r), r, sends[r], Unauthorized)
            /\ refreshCalls' = refreshCalls
            /\ RefreshInFlight' = RefreshInFlight
            /\ relogin' = relogin
            /\ isRefreshing' = isRefreshing
            /\ failedQueue' = failedQueue
            /\ microtasks' = microtasks]_vars

\* A marked request was rejected with the 401 of its replay while another
\* refresh call is in flight and a third request waits in the queue.
C12_Witness ==
    /\ isRefreshing /\ RefreshInFlight # {}
    /\ \E r \in Reqs : retry[r] /\ result[r] = Response(Url(r), r, 2, Unauthorized)
    /\ \E q \in Reqs : pc[q] = "queued"

\* The first 401 of request r was handled while a refresh call was in flight.
QueuedFirst(r) == Len(trail[r]) >= 3 /\ trail[r][3] = "enqueue"

\* Request r, enqueued on its first 401, was released by a successful refresh.
ReplayedFromQueue(r) == QueuedFirst(r) /\ Len(trail[r]) >= 4 /\ trail[r][4] = "resolve"

\* C13: a caller whose unmarked request gets 401 while a refresh call is in
\* flight gets neither a result nor an error until that refresh call resolves
\* (the request stays in failedQueue as long as the refresh call is
\* unresolved); if the refresh call succeeds, the caller receives the outcome
\* of the re-issued request and never the 401 of the first attempt.
C13_RecoverableViaQueue ==
    /\ [](\A r \in Reqs : pc[r] = "queued" =>
            /\ result[r] = Null
            /\ r \in SeqToSet(failedQueue)
            /\ Refreshing # {})
    /\ [][\A r \in Reqs :
            (pc[r] = "queued" /\ pc'[r] # "queued") =>
                \E t \in behind[r] : t \in Refreshing /\ pc'[t] # pc[t]]_vars
    /\ [](\A r \in Reqs :
            QueuedFirst(r) => result[r] # Response(Url(r), r, 1, Unauthorized))
    /\ [][\A r \in Reqs :
            (ReplayedFromQueue(r) /\ Handled(r) /\ sends[r] = 2) =>
                /\ pc'[r] = "done"
                /\ result'[r] = lastError'[r]
                /\ result'[r] \in Outcomes(r)]_vars

\* The statuses of an ordinary error: neither a success nor a 401.
OrdinaryErrors == Statuses \ {200, Unauthorized}

\* C14: a request is re-issued only after its own 401 and a successful
\* refresh call (the one it started, or the one it waited for in
\* failedQueue); a re-issued request that fails with an ordinary error is
\* rejected to its caller with that error and is not re-issued; a settled
\* request is never handed to the transport again.
C14_NoRetryOfOrdinaryErrors ==
    /\ [][\A r \in Reqs :
            Reissued(r) =>
                /\ lastError[r] = Response(Url(r), r, sends[r], Unauthorized)
                /\ refreshFails' = refreshFails
                /\ \/ /\ pc[r] = "awaitRefresh"
                      /\ retry[r]
                      /\ ~isRefreshing'
                   \/ /\ pc[r] = "resolved"
                      /\ behind[r] # {}
                      /\ \A t \in behind[r] : retry[t] /\ refreshError[t] = Null
                                                       /\ pc[t] # "awaitRefresh"]_vars
    /\ [][\A r \in Reqs :
            (Handled(r) /\ lastError'[r].status \in OrdinaryErrors) =>
                /\ pc'[r] = "done"
                /\ result'[r] = lastError'[r]
                /\ result'[r] = Response(Url(r), r, sends[r], lastError'[r].status)
                /\ sends' = sends
                /\ refreshCalls' = refreshCalls]_vars
    /\ [][\A r \in Reqs :
            pc[r] = "done" =>
                /\ pc'[r] = "done"
                /\ sends'[r] = sends[r]
                /\ result'[r] = result[r]]_vars

\* The replay of a triggering request and the replay of a queued request both
\* failed with an ordinary error, each delivered to its caller.
C14_Witness ==
    \E r, q \in Reqs :
        /\ retry[r] /\ ~retry[q] /\ ReplayedFromQueue(q)
        /\ \A x \in {r, q} :
            /\ pc[x] = "done"
            /\ sends[x] = 2
            /\ result[x].status \in OrdinaryErrors
            /\ result[x].n = 2
            /\ trail[x][Len(trail[x])] = "error"

\* The refresh call of request t is answered 401 in this step.
RefreshGets401(t) == RefreshFailsNow(t) /\ refreshError'[t].status = Unauthorized

\* C16: a 401 on POST /auth/refresh starts no refresh call and puts nothing
\* in failedQueue although isRefreshing is true when it is handled; in the
\* same step isRefreshing becomes false, every pending request is rejected
\* with that error and the re-login signal is emitted; the gateway is idle
\* from then on until the next refresh call is started.
C16_Refresh401IsTerminal ==
    /\ [][\A t \in Reqs :
            RefreshGets401(t) =>
                /\ isRefreshing
                /\ refreshCalls' = refreshCalls
                /\ RefreshInFlight' = {}
                /\ failedQueue' = <<>>
                /\ ~isRefreshing'
                /\ relogin' > relogin
                /\ Len(microtasks') = Len(failedQueue)
                /\ \A i \in 1..Len(failedQueue) :
                    /\ pc'[failedQueue[i]] = "rejected"
                    /\ microtasks'[i] = [req |-> failedQueue[i], kind |-> "reject",
                                         err |-> Response(RefreshUrl, t, 1, Unauthorized)]]_vars
    /\ [](\A t \in Reqs :
            (pc[t] = "catchPending" /\ refreshError[t].status = Unauthorized) =>
                ~isRefreshing /\ failedQueue = <<>> /\ RefreshInFlight = {})
    /\ [][\A t \in Reqs :
            (pc[t] = "catchPending" /\ refreshError[t].status = Unauthorized
                                    /\ pc'[t] # "catchPending") =>
                /\ pc'[t] = "done"
                /\ result'[t] = Response(RefreshUrl, t, 1, Unauthorized)
                /\ refreshCalls' = refreshCalls
                /\ ~isRefreshing'
                /\ failedQueue' = <<>>]_vars

\* The refresh call was answered 401 with two requests pending: both are
\* rejected and the gateway is idle.
C16_Witness ==
    /\ ~isRefreshing
    /\ failedQueue = <<>>
    /\ refreshCalls = 1
    /\ \E t \in Reqs :
        /\ pc[t] = "catchPending"
        /\ refreshError[t] = Response(RefreshUrl, t, 1, Unauthorized)
        /\ \A r \in Reqs \ {t} : pc[r] = "rejected"
    /\ Len(microtasks) = NumReqs - 1

\* What the caller of request r may be given: the response or error of the
\* current attempt, or the error of a refresh call.
CallerOutcomes(r) ==
    Outcomes(r) \cup {Response(RefreshUrl, t, 1, st) : t \in Reqs, st \in RefreshStatuses \ {200}}

Marked == {r \in Reqs : retry[r]}

\* So far the server has answered 401 to every request that is not the
\* refresh call, and 200 to every refresh call.
AlwaysExpired ==
    /\ refreshFails = 0
    /\ \A r \in Reqs : lastError[r].status \in {Null.status, Unauthorized}

\* C18: a refresh call is started only by a request that is not marked
\* _retry, in the step that marks it, and no mark is ever cleared, so that
\* at most NumReqs refresh calls are started for NumReqs requests; when the
\* server answers 401 to every request and 200 to every refresh call, every
\* issued request ends rejected with its own 401, and once all are settled
\* nothing is in flight.
C18_NoInfiniteRetryLoop ==
    /\ [][refreshCalls' # refreshCalls =>
            /\ refreshCalls' = refreshCalls + 1
            /\ \E r \in Reqs :
                /\ ~retry[r]
                /\ Marked' = Marked \cup {r}
                /\ RefreshInFlight' = {r}]_vars
    /\ [][Marked \subseteq Marked']_vars
    /\ [](refreshCalls = Cardinality(Marked) /\ refreshCalls <= NumReqs)
    /\ [](\A r \in Reqs : sends[r] <= NumReqs + 1)
    /\ \A r \in Reqs :
            (pc[r] # "idle") ~>
                \/ ~AlwaysExpired
                \/ /\ pc[r] = "done"
                   /\ retry[r]
                   /\ result[r] = Response(Url(r), r, sends[r], Unauthorized)
    /\ []((AlwaysExpired /\ \A r \in Reqs : pc[r] = "done") =>
            /\ ~isRefreshing
            /\ failedQueue = <<>>
            /\ microtasks = <<>>
            /\ refreshCalls = NumReqs)

\* Every answer was a 401 and every refresh call succeeded: all requests are
\* rejected after NumReqs refresh calls, the last of them after NumReqs + 1
\* attempts.
C18_Witness ==
    /\ AlwaysExpired
    /\ \A r \in Reqs : pc[r] = "done" /\ result[r].status = Unauthorized
    /\ refreshCalls = NumReqs
    /\ \E r \in Reqs : sends[r] = NumReqs + 1

\* The catch block of request t runs in this step, on the error of its
\* refresh call.
CatchesRefreshError(t) ==
    /\ pc[t] = "catchPending"
    /\ pc'[t] = "done"
    /\ IsRefreshFailure(refreshError[t])

\* C19: window.location.href is assigned only in a step that handles the
\* failure of a refresh call; it is not assigned in a step that handles the
\* answer of a request (success, ordinary error, 401 that is enqueued, 401
\* that starts a refresh, 401 of a marked request), in the step in which the
\* refresh call succeeds, or in a reaction of a queue entry.
C19_ReloginOnlyOnRefreshFailure ==
    /\ [][relogin' # relogin =>
            /\ relogin' = relogin + 1
            /\ \E t \in Reqs : RefreshGets401(t) \/ CatchesRefreshError(t)]_vars
    /\ [][\A r \in Reqs :
            (Handled(r) \/ Reissued(r)) => relogin' = relogin]_vars
    /\ [][refreshFails' = refreshFails /\ (\A t \in Reqs : pc[t] # "catchPending")
            => relogin' = relogin]_vars
    /\ [](relogin > 0 => refreshFails > 0)

\* One refresh call succeeded and one failed; the replay of a marked request
\* was rejected with a 401 and a request was rejected with an ordinary error;
\* the only re-login signal is that of the failed refresh call.
C19_Witness ==
    /\ refreshCalls = 2
    /\ refreshFails = 1
    /\ relogin = 1
    /\ \E r \in Reqs : retry[r] /\ result[r] = Response(Url(r), r, 2, Unauthorized)
    /\ \E r \in Reqs : result[r].status \in OrdinaryErrors
    /\ \E t \in Reqs : pc[t] = "done" /\ IsRefreshFailure(result[t])

\* The caller of request r is given an error in this step.
Rejected(r) == pc[r] # "done" /\ pc'[r] = "done" /\ result'[r].status # 200

\* C20: when a refresh call fails, the caller of the triggering request and
\* the caller of every request that waited in failedQueue are given the
\* error of that refresh call, not the 401 of their own request.
C20_RefreshErrorDelivered ==
    /\ [][\A t \in Reqs :
            RefreshFailsNow(t) =>
                /\ IsRefreshFailure(refreshError'[t])
                /\ refreshError'[t].req = t]_vars
    /\ [][\A t \in Reqs :
            (pc[t] = "catchPending" /\ pc'[t] # "catchPending") =>
                /\ Rejected(t)
                /\ result'[t] = refreshError[t]
                /\ result'[t] # lastError[t]
                /\ lastError[t].status = Unauthorized
                /\ \A i \in 1..Len(failedQueue) :
                    /\ pc'[failedQueue[i]] = "rejected"
                    /\ microtasks'[Len(microtasks) + i].err = refreshError[t]]_vars
    /\ [][\A r \in Reqs :
            (pc[r] = "rejected" /\ pc'[r] # "rejected") =>
                /\ Rejected(r)
                /\ behind[r] # {}
                /\ \A t \in behind[r] : result'[r] = refreshError[t]
                /\ IsRefreshFailure(result'[r])
                /\ result'[r] # lastError[r]
                /\ lastError[r].status = Unauthorized]_vars
    /\ [](\A r \in Reqs :
            pc[r] \in {"rejected", "catchPending"} =>
                \E t \in Reqs : IsRefreshFailure(refreshError[t]))

\* A refresh call failed without a response: the caller of the triggering
\* request and the callers of the two queued requests hold that error.
C20_Witness ==
    \E t \in Reqs :
        /\ refreshError[t] = Response(RefreshUrl, t, 1, 0)
        /\ \A r \in Reqs : pc[r] = "done" /\ result[r] = refreshError[t]
        /\ \A r \in Reqs \ {t} : trail[r] = <<"send", "401", "enqueue", "reject", "fail">>

\* The requests and answers of call o, in order.
Of(o) == network[o]

\* POST /auth/register of call o is answered in this step; Of(o)' then ends
\* with that answer or with what the call sent after it.
RegisterAnswered(o, dir) ==
    /\ at[o] = "register"
    /\ at'[o] # "register"
    /\ Of(o)'[Len(Of(o)) + 1].url = "/auth/register"
    /\ Of(o)'[Len(Of(o)) + 1].dir = dir

\* The answer call o got to the POST /auth/login it sent.
LoginAnswer(o) == Of(o)[4]

\* C17: when the POST /auth/register of AuthContext.register succeeds, the
\* next request of that call is POST /auth/login with the username and
\* password register was called with, and register returns what that login
\* returns ({ success: true } when POST /auth/login succeeded, { success:
\* false, error } with login's error when it failed); when POST
\* /auth/register fails, register sends no login request and returns
\* success: false.
C17_RegisterThenLogin ==
    /\ [][\A o \in Ops :
            RegisterAnswered(o, "ok") =>
                /\ fn[o] = "register"
                /\ ret'[o] = Pending
                /\ Len(Of(o)') = Len(Of(o)) + 2
                /\ Of(o)'[Len(Of(o)')] = Request(o, "/auth/login", Of(o)[1])
                /\ Of(o)[1] = Request(o, "/auth/register", creds[o])]_vars
    /\ [][\A o \in Ops :
            RegisterAnswered(o, "error") =>
                /\ at'[o] = "returned"
                /\ ret'[o].kind = "object"
                /\ ~ret'[o].success
                /\ Len(Of(o)') = Len(Of(o)) + 1]_vars
    /\ [](\A o \in Ops :
            (fn[o] = "register" /\ at[o] = "returned") =>
                /\ ret[o].kind = "object"
                /\ IF Of(o)[2].dir = "error"
                   THEN /\ Len(Of(o)) = 2
                        /\ ~ret[o].success
                        /\ ret[o].error \in {Of(o)[2].detail, RegisterErrorMessage} \ {NoDetail}
                   ELSE /\ Len(Of(o)) >= 4
                        /\ Of(o)[3] = Request(o, "/auth/login", creds[o])
                        /\ ret[o] = IF LoginAnswer(o).dir = "ok" THEN Succeeded
                                    ELSE Failed(LoginAnswer(o).detail, LoginErrorMessage))
    /\ [](\A o \in Ops : \A i \in 1..Len(Of(o)) :
            (fn[o] = "register" /\ Of(o)[i].url = "/auth/login" /\ Of(o)[i].dir = "request") =>
                i = 3 /\ Of(o)[2].dir = "ok")

\* One register call whose POST /auth/register succeeded and whose login
\* failed, and one whose POST /auth/register failed.
C17_Witness ==
    \E o, q \in Ops :
        /\ fn[o] = "register" /\ fn[q] = "register"
        /\ at[o] = "returned" /\ at[q] = "returned"
        /\ Of(o)[2].dir = "ok"
        /\ ret[o] = Failed(NoDetail, LoginErrorMessage)
        /\ Of(q)[2].dir = "error"
        /\ ret[q] = Failed("detail", RegisterErrorMessage)

\* The number of entries of sequence q that belong to request r.
Count(q, r) == Cardinality({i \in 1..Len(q) : q[i] = r})

\* The number of scheduled reactions of the queue entry of request r.
Reactions(r) == Cardinality({i \in 1..Len(microtasks) : microtasks[i].req = r})

\* C22: every request put into failedQueue is released exactly once: its
\* entry is either resolved, and the request then re-issued once, or
\* rejected, and its caller then given the error once; this also holds when
\* POST /auth/refresh answers 401 and processQueue runs in the interceptor
\* pass of the refresh request and again in the catch block of the
\* triggering handler.
C22_ReleasedExactlyOnce ==
    /\ [](\A r \in Reqs :
            /\ Count(failedQueue, r) = IF pc[r] = "queued" THEN 1 ELSE 0
            /\ Reactions(r) = IF pc[r] \in {"resolved", "rejected"} THEN 1 ELSE 0
            /\ \A i \in 1..Len(microtasks) :
                microtasks[i].req = r =>
                    microtasks[i].kind = IF pc[r] = "resolved" THEN "resolve" ELSE "reject")
    /\ [][\A r \in Reqs :
            /\ (pc[r] = "queued" /\ pc'[r] # "queued") =>
                    /\ pc'[r] \in {"resolved", "rejected"}
                    /\ sends'[r] = sends[r]
                    /\ result'[r] = Null
            /\ (pc[r] = "resolved" /\ pc'[r] # "resolved") =>
                    /\ pc'[r] = "inflight"
                    /\ sends'[r] = sends[r] + 1
                    /\ result'[r] = Null
            /\ (pc[r] = "rejected" /\ pc'[r] # "rejected") =>
                    /\ pc'[r] = "done"
                    /\ sends'[r] = sends[r]
                    /\ result'[r] # Null]_vars
    /\ [][\A t \in Reqs :
            (pc[t] = "catchPending" /\ refreshError[t].status = Unauthorized
                                    /\ pc'[t] # "catchPending") =>
                /\ failedQueue = <<>>
                /\ microtasks' = microtasks
                /\ \A r \in Reqs \ {t} : pc'[r] = pc[r]]_vars

\* POST /auth/refresh answered 401 with two requests pending; processQueue
\* has run twice and each of the two callers was given the error once.
C22_Witness ==
    \E t \in Reqs :
        /\ pc[t] = "done"
        /\ result[t] = Response(RefreshUrl, t, 1, Unauthorized)
        /\ relogin = 2
        /\ \A r \in Reqs \ {t} :
            /\ trail[r] = <<"send", "401", "enqueue", "reject", "fail">>
            /\ result[r] = Response(RefreshUrl, t, 1, Unauthorized)

\* Request r is put into failedQueue in this step.
Enqueued(r) == Handled401(r) /\ ~retry[r] /\ isRefreshing

\* C23: a 401 of an unmarked request handled while isRefreshing is true
\* appends one entry for that request to the end of failedQueue and changes
\* nothing else: isRefreshing stays true, no _retry mark is set, no request
\* is sent (neither POST /auth/refresh nor a replay), no re-login signal is
\* emitted, no reaction is scheduled and no caller is given anything.
C23_EnqueueFrame ==
    [][\A r \in Reqs :
        Enqueued(r) =>
            /\ failedQueue' = Append(failedQueue, r)
            /\ isRefreshing'
            /\ retry' = retry
            /\ refreshCalls' = refreshCalls
            /\ sends' = sends
            /\ relogin' = relogin
            /\ microtasks' = microtasks
            /\ result' = result
            /\ refreshError' = refreshError
            /\ refreshFails' = refreshFails
            /\ \A q \in Reqs \ {r} : pc'[q] = pc[q]
            /\ pc'[r] = "queued"]_vars

\* Two requests were enqueued one after the other behind the refresh call
\* of a third; none of the two is marked.
C23_Witness ==
    /\ isRefreshing
    /\ Len(failedQueue) = 2
    /\ failedQueue[1] # failedQueue[2]
    /\ \A i \in 1..2 : ~retry[failedQueue[i]] /\ ticket[failedQueue[i]] = i
    /\ refreshCalls = 1
    /\ relogin = 0

\* The answer call o got to its n-th request (entry 2n of its log).
AnswerOf(o, n) == Of(o)[2 * n]

\* C26: logout ends with user = null and isAuthenticated = false and
\* returns without rejecting, whether POST /auth/logout succeeded or failed;
\* it does not change loading.
C26_LogoutAlwaysClears ==
    /\ [][\A o \in Ops :
            (at[o] = "logout" /\ at'[o] # "logout") =>
                /\ fn[o] = "logout"
                /\ at'[o] = "returned"
                /\ user' = NoUser
                /\ ~isAuthenticated'
                /\ loading' = loading
                /\ ret'[o] = Undefined
                /\ Len(Of(o)') = 2
                /\ Of(o)'[1] = Request(o, "/auth/logout", NoCreds)
                /\ Of(o)'[2].dir \in {"ok", "error"}]_vars
    /\ [](\A o \in Ops : fn[o] = "logout" => ret[o] \in {Pending, Undefined})
    /\ [](\A o \in Ops : ret[o] # Rejection)

\* A user was signed in (checkAuth succeeded); then a logout whose POST
\* /auth/logout failed returned and cleared the user.
C26_Witness ==
    \E o, q \in Ops :
        /\ fn[q] = "checkAuth" /\ at[q] = "returned" /\ AnswerOf(q, 1).dir = "ok"
        /\ fn[o] = "logout" /\ at[o] = "returned" /\ AnswerOf(o, 1).dir = "error"
        /\ ret[o] = Undefined
        /\ user = NoUser /\ ~isAuthenticated /\ ~loading

\* C27: login returns { success: true } exactly when POST /auth/login
\* succeeded; a failure of the GET /users/me of the checkAuth that follows
\* sets user = null and isAuthenticated = false and does not change what
\* login returns; checkAuth sets loading = false when it finishes, whether
\* GET /users/me succeeded or failed.
C27_LoginResult ==
    /\ [](\A o \in Ops :
            (fn[o] = "login" /\ at[o] = "returned") =>
                /\ ret[o].kind = "object"
                /\ ret[o].success <=> AnswerOf(o, 1).dir = "ok"
                /\ ret[o] = IF AnswerOf(o, 1).dir = "ok" THEN Succeeded
                            ELSE Failed(AnswerOf(o, 1).detail, LoginErrorMessage)
                /\ AnswerOf(o, 1).url = "/auth/login")
    /\ [][\A o \in Ops :
            (at[o] = "me" /\ at'[o] # "me") =>
                /\ at'[o] = "returned"
                /\ ~loading'
                /\ Of(o)'[Len(Of(o)')].url = "/users/me"
                /\ IF Of(o)'[Len(Of(o)')].dir = "error"
                   THEN user' = NoUser /\ ~isAuthenticated'
                   ELSE user' = Of(o)'[Len(Of(o)')].username /\ isAuthenticated'
                /\ fn[o] = "login" => ret'[o] = Succeeded
                /\ fn[o] = "checkAuth" => ret'[o] = Undefined]_vars
    /\ [][\A o \in Ops :
            (at[o] = "login" /\ at'[o] # "login" /\ Of(o)'[Len(Of(o)) + 1].dir = "error") =>
                /\ at'[o] = "returned"
                /\ user' = user /\ isAuthenticated' = isAuthenticated /\ loading' = loading]_vars

\* The only call made is a login that returned { success: true } although
\* its GET /users/me failed: nobody is authenticated.
C27_Witness ==
    \E o \in Ops :
        /\ fn[o] = "login" /\ at[o] = "returned"
        /\ ret[o] = Succeeded
        /\ Len(Of(o)) = 4 /\ AnswerOf(o, 2).dir = "error"
        /\ ~isAuthenticated /\ user = NoUser /\ ~loading
        /\ \A q \in Ops \ {o} : fn[q] = "none"

\* The urls of the requests that pass the interceptor.
Urls == {Endpoints[i] : i \in 1..Len(Endpoints)} \cup {RefreshUrl}

\* The requests of authAPI.login and authAPI.register.
AuthEndpointReqs == {r \in Reqs : Url(r) \in {"/auth/login", "/auth/register"}}

\* C21: a failure enters the refresh cycle exactly when its status is 401,
\* its request is not marked _retry and its url is not the refresh endpoint,
\* whatever the endpoint.  So a 401 of POST /auth/login or POST
\* /auth/register starts a refresh call when isRefreshing is false and is
\* enqueued when it is true, and when that refresh call fails the caller is
\* given the error of the refresh call, with a re-login signal, and not the
\* 401 of its own request.
C21_ExpiredByStatusMarkAndUrl ==
    /\ [](\A status \in Statuses \cup RefreshStatuses, retried \in BOOLEAN,
            url \in Urls, refreshing \in BOOLEAN :
            LET expired == status = Unauthorized /\ ~retried /\ url # RefreshUrl IN
            /\ expired => Branch(status, retried, url, refreshing) =
                            IF refreshing THEN "enqueue" ELSE "startRefresh"
            /\ ~expired => Branch(status, retried, url, refreshing)
                            \in {"passThrough", "refreshExpired"})
    /\ [][\A r \in AuthEndpointReqs :
            (Handled401(r) /\ ~retry[r]) =>
                /\ result'[r] = Null
                /\ IF isRefreshing
                   THEN /\ pc'[r] = "queued"
                        /\ failedQueue' = Append(failedQueue, r)
                        /\ refreshCalls' = refreshCalls
                   ELSE /\ pc'[r] = "awaitRefresh"
                        /\ refreshCalls' = refreshCalls + 1
                        /\ isRefreshing']_vars
    /\ [](\A r \in AuthEndpointReqs :
            (pc[r] = "done" /\ sends[r] = 1 /\ lastError[r].status = Unauthorized) =>
                /\ IsRefreshFailure(result[r])
                /\ result[r] # lastError[r]
                /\ relogin >= 1)

\* POST /auth/login got 401 with no refresh under way and started one; POST
\* /auth/register got 401 meanwhile and was enqueued; the refresh call
\* failed and both callers hold its error.
C21_Witness ==
    \E r, q \in AuthEndpointReqs :
        /\ Url(r) = "/auth/login" /\ Url(q) = "/auth/register"
        /\ pc[r] = "done" /\ pc[q] = "done"
        /\ lastError[r] = Response("/auth/login", r, 1, Unauthorized)
        /\ lastError[q] = Response("/auth/register", q, 1, Unauthorized)
        /\ retry[r] /\ ~retry[q]
        /\ IsRefreshFailure(result[r]) /\ result[q] = result[r]
        /\ relogin >= 1

\* C24: with a page that calls authAPI.refresh() itself, at most one refresh
\* call of the interceptor (line 58) is in flight in every reachable state,
\* and a request leaves failedQueue, to be re-issued or rejected, only in
\* the step that resolves the refresh call of the interceptor it was
\* enqueued behind.
C24_SingleRefreshWithDirectCall ==
    /\ [](Cardinality(RefreshInFlight) <= 1)
    /\ [][\A r \in Reqs :
            (pc[r] = "queued" /\ pc'[r] # "queued") =>
                \E t \in behind[r] : t \in Refreshing /\ pc'[t] # pc[t]]_vars

\* The sign-in page is loaded, its checkAuth is over and nothing is under
\* way: no refresh call, no pending re-login signal, nothing queued.
Stable ==
    /\ location = SignInPath
    /\ pc[MountReq] = "done"
    /\ RefreshInFlight = {}
    /\ Refreshing = {}
    /\ ~isRefreshing
    /\ relogin = 0

\* C25: for a visitor without a session (GET /users/me and POST
\* /auth/refresh answer 401) the application is in the end, after the
\* redirect to /auth/sign-in, in a stable state for good: no refresh call
\* is sent any more and no re-login signal is emitted any more.
C25_VisitorSettles ==
    /\ <>[]Stable
    /\ <>[][refreshCalls' <= refreshCalls /\ relogin' <= relogin]_vars

====
